---- MODULE Spec2Model ----
(***************************************************************************)
(* Benders-style Branch-and-Cut engine of 2e-multi-period-capacity:        *)
(* the master problem (src/model/master_problem.py), the per-(period,      *)
(* scenario) subproblem (src/model/sub_problem.py) and the Cut Generator   *)
(* callback (src/model/cuts.py).                                           *)
(*                                                                         *)
(* Conventions.                                                            *)
(*  - A Python dict is a TLA+ function; a lookup of a key outside its      *)
(*    DOMAIN is the KeyError the interpreter raises.                       *)
(*  - Keys: str(n) is <<"str", n>>, the tuple (t, n) is <<"tup", t, n>>,   *)
(*    a capacity key str(capacity) and a pixel id are the tuple of their   *)
(*    decimal digits, (s, q) is <<s, q>>.                                  *)
(*  - The master objective carries the factor 1/len(scenarios); every      *)
(*    amount that contains it (total_cost, upper_bound) is held as its     *)
(*    numerator over the denominator len(scenarios) (operator Den).        *)
(***************************************************************************)
EXTENDS Integers, Sequences, FiniteSets, TLC

(* ------------------------------ bounds -------------------------------- *)
MaxPeriods == 2
MaxScenarios == 2
MaxSlack == 1
MaxCallbacks == 2
MaxRuns == 2
MaxTrain == 3

(* sys.maxsize: stands for 2^63 - 1; every amount of the bounded model is  *)
(* far below it.                                                           *)
sys_maxsize == 1000000

(* ----------------------------- helpers -------------------------------- *)
RECURSIVE SumOver(_, _)
SumOver(S, f) ==
  IF S = {} THEN 0
  ELSE LET e == CHOOSE e \in S : TRUE IN f[e] + SumOver(S \ {e}, f)

MinOf(S) == CHOOSE m \in S : \A e \in S : m <= e

(* str(c) for 0 <= c < 100, as the tuple of its decimal digits *)
Str(c) == IF c < 10 THEN <<c>> ELSE <<c \div 10, c % 10>>

(* Python's >= on two strings of digits: lexicographic, a proper prefix is smaller *)
StrGE(a, b) ==
  LET n == IF Len(a) < Len(b) THEN Len(a) ELSE Len(b)
      diff == {i \in 1..n : a[i] # b[i]}
  IN IF diff = {} THEN Len(a) >= Len(b)
     ELSE LET i == MinOf(diff) IN a[i] > b[i]

(* ------------------------- the instance (input) ------------------------ *)
(* The fields the optimisation layer reads from Instance and from the     *)
(* cost / fleet-size oracle. Tables are generated from a few knobs.       *)
id_scenarios(inst) == [i \in 1..inst.nscen |-> i]
ScenarioIds(inst) == 1..inst.nscen
Periods(inst) == 0..(inst.periods - 1)

(* satellite.capacity after Instance.__update_instance: str(capacity) -> capacity *)
capacity(inst) == [q \in {Str(c) : c \in inst.capacity_satellites} |->
                     CHOOSE c \in inst.capacity_satellites : Str(c) = q]

(* satellite.capacity.keys() *)
Tiers(inst) == DOMAIN capacity(inst)

(* costs_by_scenarios[str(n)]["satellite"][(s, k, t)]["total"] *)
CostSat(inst, n, s, k, t) == IF s = "s1" THEN inst.sat ELSE inst.sat + 1
(* costs_by_scenarios[str(n)]["dc"][(k, t)]["total"] *)
CostDc(inst, n, k, t) == inst.dc
(* fleet_size_required["small"][(s, k, t)]["fleet_size"] *)
FleetSize(inst, n, s, k, t) == inst.fleet
(* satellite.cost_fixed[q] *)
cost_fixed(inst, s, q) == capacity(inst)[q]
(* satellite.cost_operation[q][t] *)
cost_operation(inst, s, q, t) == 1 + t * inst.op_step + (IF capacity(inst)[q] > 2 THEN 1 ELSE 0)

InstanceShape(sats, P, N, mode, flex, px, dc, sat, fleet, step) ==
  [satellites |-> sats, capacity_satellites |-> {2, 6}, periods |-> P, nscen |-> N,
   key_mode |-> mode, type_of_flexibility |-> flex, pixels |-> px,
   dc |-> dc, sat |-> sat, fleet |-> fleet, op_step |-> step]

(* instances without pixels: every subproblem reduces to the operating cost *)
InstancesNoPixels ==
  {InstanceShape({"s1"}, P, 1, "tup", flex, [n \in 1..1 |-> {}], 4, 2, 1, step) :
     P \in 1..MaxPeriods, flex \in {1, 2}, step \in {0, 1}}
  \cup {InstanceShape({"s1", "s2"}, 1, 1, "tup", flex, [n \in 1..1 |-> {}], 4, 2, 1, 0) :
          flex \in {1, 2}}
  \cup {InstanceShape(sats, P, 1, "str", 1, [n \in 1..1 |-> {}], 4, 2, 1, 0) :
          sats \in {{"s1"}, {"s1", "s2"}}, P \in 1..MaxPeriods}

(* instances without satellites: every zone is served from the depot *)
InstancesNoSatellites ==
  UNION {{InstanceShape({}, P, N, mode, 1, px, 1, 2, 1, 0) :
            px \in [1..N -> {{}, {<<2>>}, {<<2>>, <<7>>}}]} :
         P \in 1..MaxPeriods, N \in 1..MaxScenarios, mode \in {"str", "tup"}}

(* instances with satellites and pixels *)
InstancesFull ==
  {InstanceShape(sats, 1, 1, "tup", flex, [n \in 1..1 |-> px], dc, 2, fleet, 0) :
     sats \in {{"s1"}, {"s1", "s2"}}, flex \in {1, 2},
     px \in {{<<2>>}, {<<2>>, <<7>>}, {<<2>>, <<6>>}}, dc \in {1, 4}, fleet \in {1, 3}}

(* a tier set with a two-digit capacity, as the [2, 6, 12] of the instance *)
(* generator: the keys are the strings "2" and "12"                       *)
InstancesTwoDigitTier ==
  {[InstanceShape({"s1"}, 1, 1, "tup", flex, [n \in 1..1 |-> {}], 4, 2, 1, 0)
      EXCEPT !.capacity_satellites = {2, 12}] : flex \in {1, 2}}

(* two scenarios that prefer different patterns: scenario 1 has one zone,  *)
(* which tier 2 can serve, scenario 2 has two zones, which need tier 6     *)
InstancesConflict ==
  {InstanceShape({"s1"}, 1, 2, "tup", flex,
                 [n \in 1..2 |-> IF n = 1 THEN {<<2>>} ELSE {<<2>>, <<7>>}], 9, 2, 2, 0) :
     flex \in {1, 2}}

(* one satellite with the single tier 2 and one zone, which fits the tier  *)
(* (fleet size 1) or exceeds it (fleet size 3)                             *)
InstancesOneTier ==
  {[InstanceShape({"s1"}, 1, 1, "tup", flex, [n \in 1..1 |-> {<<2>>}], dc, 2, fleet, 0)
      EXCEPT !.capacity_satellites = {2}] : flex \in {1, 2}, dc \in {4, 9}, fleet \in {1, 3}}

Instances ==
  InstancesOneTier \cup InstancesNoPixels \cup InstancesNoSatellites \cup InstancesFull \cup InstancesTwoDigitTier
    \cup InstancesConflict

(* ------------------------ installation patterns ------------------------ *)
YKeys(inst) == {<<s, q>> : s \in inst.satellites, q \in Tiers(inst)}
Patterns(inst) == [YKeys(inst) -> {0, 1}]
OpenTiers(inst, Y, s) == {q \in Tiers(inst) : Y[<<s, q>>] = 1}
Installed(inst, Y) == {s \in inst.satellites : OpenTiers(inst, Y, s) # {}}
AtMostOneTier(inst, Y) == \A s \in inst.satellites : Cardinality(OpenTiers(inst, Y, s)) <= 1

(* ------------------------------ SubProblem ----------------------------- *)
(* SubProblem.__add_variables, variable X: the keys (s, q, t) created; t is *)
(* the subproblem's own period and is left out of the key.                 *)
XKeys(inst, Y) ==
  IF inst.type_of_flexibility = 1
  THEN {<<s, q>> : s \in inst.satellites, q \in Tiers(inst)} \cap {k \in YKeys(inst) : Y[k] = 1}
  ELSE {k \in YKeys(inst) : \E q \in Tiers(inst) : Y[<<k[1], q>>] = 1 /\ StrGE(q, k[2])}

(* the (q, q_lower) pairs of satellite s that constraint (3) and the        *)
(* operating cost sum over                                                 *)
TierPairs(inst, Y, s) ==
  {pr \in Tiers(inst) \X Tiers(inst) :
     Y[<<s, pr[1]>>] = 1 /\
     IF inst.type_of_flexibility = 1 THEN pr[1] = pr[2] ELSE StrGE(pr[1], pr[2])}

(* variable Z: one per (installed satellite, pixel); variable W: one per pixel *)
ZKeys(inst, n, Y) == {<<s, k>> : s \in Installed(inst, Y), k \in inst.pixels[n]}
WKeys(inst, n) == inst.pixels[n]

(* the filter of the Z comprehension reads satellites.capacity, an attribute *)
(* a dict does not have: it raises on the first (s, k) it is evaluated for  *)
AddVariablesRaises(inst, n) == inst.satellites # {} /\ inst.pixels[n] # {}

(* SubProblem.__add_objective *)
cost_operating_satellites(inst, t, Y, sol) ==
  SumOver({<<s, pr>> \in inst.satellites \X (Tiers(inst) \X Tiers(inst)) :
             pr \in TierPairs(inst, Y, s)},
          [e \in inst.satellites \X (Tiers(inst) \X Tiers(inst)) |->
             cost_operation(inst, e[1], e[2][2], t) * sol.X[<<e[1], e[2][2]>>]])

cost_served_from_satellite(inst, n, t, Y, sol) ==
  SumOver(ZKeys(inst, n, Y),
          [e \in ZKeys(inst, n, Y) |-> CostSat(inst, n, e[1], e[2], t) * sol.Z[e]])

cost_served_from_dc(inst, n, t, sol) ==
  SumOver(WKeys(inst, n), [k \in WKeys(inst, n) |-> CostDc(inst, n, k, t) * sol.W[k]])

objective(inst, n, t, Y, sol) ==
  cost_served_from_dc(inst, n, t, sol) + cost_served_from_satellite(inst, n, t, Y, sol)
    + cost_operating_satellites(inst, t, Y, sol)

(* SubProblem.solve_model, the constraints added to the model *)
R_Operating(inst, Y, sol) ==
  inst.type_of_flexibility = 1 => \A k \in XKeys(inst, Y) : sol.X[k] = 1

(* constraint (2) with the zones served from the depot counted against    *)
(* the capacity of every installed satellite                               *)
R_capacity_SharedWithDepot(inst, n, t, Y, sol) ==
  \A s \in Installed(inst, Y) :
    SumOver(inst.pixels[n], [k \in inst.pixels[n] |->
              (sol.Z[<<s, k>>] + sol.W[k]) * FleetSize(inst, n, s, k, t)])
      - SumOver(Tiers(inst), [q \in Tiers(inst) |-> Y[<<s, q>>] * capacity(inst)[q]])
      <= 0

R_capacity(inst, n, t, Y, sol) ==
  \A s \in Installed(inst, Y) :
    SumOver(inst.pixels[n], [k \in inst.pixels[n] |-> sol.Z[<<s, k>>] * FleetSize(inst, n, s, k, t)])
      - SumOver(Tiers(inst), [q \in Tiers(inst) |-> Y[<<s, q>>] * capacity(inst)[q]])
      <= 0

R_Assign(inst, n, Y, sol) ==
  \A k \in inst.pixels[n] : \A s \in Installed(inst, Y) :
    sol.Z[<<s, k>>]
      - SumOver(TierPairs(inst, Y, s), [pr \in TierPairs(inst, Y, s) |-> sol.X[<<s, pr[2]>>]])
      <= 0

(* constraint (4) as a covering constraint: at least one source *)
R_demand_AtLeastOne(inst, n, Y, sol) ==
  \A k \in inst.pixels[n] :
    SumOver(Installed(inst, Y), [s \in Installed(inst, Y) |-> sol.Z[<<s, k>>]]) + sol.W[k] >= 1

R_demand(inst, n, Y, sol) ==
  \A k \in inst.pixels[n] :
    SumOver(Installed(inst, Y), [s \in Installed(inst, Y) |-> sol.Z[<<s, k>>]]) + sol.W[k] = 1

(* the assignments of the binary variables that satisfy every constraint *)
FeasibleSolutions(inst, n, t, Y) ==
  {sol \in [X : [XKeys(inst, Y) -> {0, 1}], Z : [ZKeys(inst, n, Y) -> {0, 1}],
            W : [WKeys(inst, n) -> {0, 1}]] :
     /\ R_Operating(inst, Y, sol)
     /\ R_demand(inst, n, Y, sol)
     /\ R_Assign(inst, n, Y, sol)
     /\ R_capacity(inst, n, t, Y, sol)}

(* model.optimize() followed by _total_cost.getValue(): the optimal value *)
SubproblemCost(inst, n, t, Y) ==
  MinOf({objective(inst, n, t, Y, sol) : sol \in FeasibleSolutions(inst, n, t, Y)})

(* ---------------------------- MasterProblem ---------------------------- *)
(* instance.scenarios.keys(): the attribute is assigned by the caller; its *)
(* keys are the strings str(n), or the tuples (t, n) of a caller that      *)
(* holds one entry per period and scenario.                                *)
ScenarioKeys(inst) ==
  IF inst.key_mode = "str"
  THEN {<<"str", n>> : n \in ScenarioIds(inst)}
  ELSE {<<"tup", t, n>> : t \in Periods(inst), n \in ScenarioIds(inst)}

(* the Scenario object stored under a key *)
ScenarioOf(key) == key[Len(key)]

(* len(scenarios): the denominator of the second-stage term *)
Den(inst) == Cardinality(ScenarioKeys(inst))

(* MasterProblem.__add_variables: the keys of self.θ *)
ThetaKeys(inst) == ScenarioKeys(inst)

(* MasterProblem.__compute_lower_bound *)
compute_lower_bound(inst) ==
  [key \in ScenarioKeys(inst) |->
     LET n == ScenarioOf(key)
         KT == inst.pixels[n] \X Periods(inst)
     IN SumOver(KT, [e \in KT |->
          MinOf({CostSat(inst, n, s, e[1], e[2]) : s \in inst.satellites}
                  \cup {CostDc(inst, n, e[1], e[2])})])]

(* MasterProblem.__add_objective: cost_installation_satellites at Y *)
cost_installation_satellites(inst, Y) ==
  SumOver(YKeys(inst), [k \in YKeys(inst) |-> cost_fixed(inst, k[1], k[2]) * Y[k]])

(* total_cost = cost_installation_satellites + 1/len(scenarios) * sum(θ),  *)
(* as a numerator over Den(inst)                                           *)
total_cost_value(inst, Y, theta) ==
  Den(inst) * cost_installation_satellites(inst, Y)
    + SumOver(ThetaKeys(inst), [k \in ThetaKeys(inst) |-> theta[k]])

(* a master without constraint (1) *)
R_Open_Dropped(inst, Y) == TRUE

(* MasterProblem.__add_constraints, constraint (1) *)
R_Open(inst, Y) == \A s \in inst.satellites : SumOver(Tiers(inst), [q \in Tiers(inst) |-> Y[<<s, q>>]]) <= 1

(* the lower bounds on the second-stage cost, and lb=0.0 of the variable *)
R_LowerBound(inst, theta) ==
  \A key \in ThetaKeys(inst) :
    /\ theta[key] >= 0
    /\ compute_lower_bound(inst)[key] > 0 => theta[key] >= compute_lower_bound(inst)[key]

(* ----------------------------- Cut Generator --------------------------- *)
(* Cuts.SPs: one SubProblem per (t, n), built by __create_subproblems      *)
SPKeys(inst) == {<<t, n>> : t \in Periods(inst), n \in ScenarioIds(inst)}

(* the order in which the two nested loops of add_cut_integer_solution     *)
(* visit the pairs: period-major, scenarios in the order of id_scenarios   *)
PairAt(inst, i) ==
  <<(i - 1) \div inst.nscen, id_scenarios(inst)[((i - 1) % inst.nscen) + 1]>>
NumPairs(inst) == inst.periods * inst.nscen

(* a comparison that also accepts a larger total *)
ImprovesUpperBound_AnyChange(total_cost, upper_bound) == total_cost # upper_bound

(* total_cost < Cuts.upper_bound *)
ImprovesUpperBound(total_cost, upper_bound) == total_cost < upper_bound

(* θ[(t, n)] < subproblem_cost *)
CutTriggered(theta_tn, subproblem_cost) == theta_tn < subproblem_cost

(* get_activation_function: the (s, q) that pass the filter Y[(s, q)] > 0  *)
OpenKeys(inst, Y) == {k \in YKeys(inst) : Y[k] > 0}

(* the constant without its "+ 1" *)
ActivationConstant_NoPlusOne(inst, Y) == 0 - Cardinality(OpenKeys(inst, Y))

(* get_activation_function: the constant "- len([...]) + 1" of activation  *)
ActivationConstant(inst, Y) == 1 - Cardinality(OpenKeys(inst, Y))

(* get_activation_function: the inner list of L for pixel k, whose filter  *)
(* reads Y[(s, k)]: the pattern is indexed by the pixel id                 *)
LInnerKeys(inst, k) == {<<s, k>> : s \in inst.satellites}
LInnerList(inst, Y, n, k, t) ==
  {CostSat(inst, n, s, k, t) : s \in {s \in inst.satellites : Y[<<s, k>>] > 0}}

(* the exception get_activation_function ends with, "" when it returns:    *)
(* Y[(s, k)] is a KeyError when (s, k) is no key of Y, np.min of an empty  *)
(* list is a ValueError                                                    *)
ActivationRaises(inst, Y, n, t) ==
  IF \E k \in inst.pixels[n] : ~(LInnerKeys(inst, k) \subseteq DOMAIN Y) THEN "KeyError"
  ELSE IF \E k \in inst.pixels[n] : LInnerList(inst, Y, n, k, t) = {} THEN "ValueError"
  ELSE ""

(* L = np.sum([np.min([...]) for k in pixels]) *)
CutL(inst, Y, n, t) ==
  SumOver(inst.pixels[n], [k \in inst.pixels[n] |-> MinOf(LInnerList(inst, Y, n, k, t))])

(* get_activation_function returns the linear expression                   *)
(*   L + (subproblem_cost - L) * (sum of model._Y over open + constant),   *)
(* held as its coefficients                                                *)
get_activation_function(inst, Y, subproblem_cost, n, t) ==
  [L |-> CutL(inst, Y, n, t), slope |-> subproblem_cost - CutL(inst, Y, n, t),
   open |-> OpenKeys(inst, Y), const |-> ActivationConstant(inst, Y)]

(* the value of activation, and of the expression, at a pattern Y          *)
Activation(expr, Y) == SumOver(expr.open, [k \in expr.open |-> Y[k]]) + expr.const
CutRHS(expr, Y) == expr.L + expr.slope * Activation(expr, Y)

(* model.cbLazy(θ[(t, n)] <= act_functon): θ is the dict of values returned *)
(* by cbGetSolution, so the left side is a number and the constraint handed *)
(* to the solver is  act_functon >= θ[(t, n)]  over the variables model._Y  *)
LazyConstraint(inst, Y, theta_tn, subproblem_cost, n, t) ==
  [expr |-> get_activation_function(inst, Y, subproblem_cost, n, t),
   bound |-> theta_tn, t |-> t, n |-> n, cost |-> subproblem_cost, anchor |-> Y]

(* a master point (Y, θ) satisfies a lazy constraint *)
CutAdmits(cut, Y, theta) == CutRHS(cut.expr, Y) >= cut.bound

(* the master-feasible points: constraint (1), the θ bounds, and every     *)
(* lazy constraint added so far                                            *)
ThetaValues(inst) ==
  {th \in {[key \in ThetaKeys(inst) |-> compute_lower_bound(inst)[key] + d[key]] :
             d \in [ThetaKeys(inst) -> 0..MaxSlack]} : R_LowerBound(inst, th)}

MasterFeasible(inst, cuts) ==
  {c \in [Y : {Y \in Patterns(inst) : R_Open(inst, Y)}, theta : ThetaValues(inst)] :
     \A cut \in cuts : CutAdmits(cut, c.Y, c.theta)}

(* ------------------------------- state --------------------------------- *)
VARIABLES
  inst,                 \* the Instance handed to MasterProblem and Cuts
  pc,                   \* "idle" | "searching" | "callback" | "raised" | "terminated" |
                        \* "aborted" | "solve_raised"
  where,                \* the frame of the last add_cuts call
  cand,                 \* (Y, θ) returned by cbGetSolution in the running callback
  pair,                 \* position of the nested loops, 1..NumPairs + 1
  upper_bound,          \* Cuts.upper_bound, numerator over Den(inst)
  best_solution,        \* Cuts.best_solution
  upper_bound_updated,  \* Cuts.upper_bound_updated
  optimality_cuts,      \* Cuts.optimality_cuts
  LBF_cuts,             \* Cuts.LBF_cuts
  subproblem_solved,    \* Cuts.subproblem_solved
  lazy,                 \* the constraints handed to model.cbLazy
  injected,             \* the solution last handed to cbSetSolution / cbUseSolution
  disposed,             \* the (t, n) whose SubProblem model has been disposed
  total_cost,           \* the local total_cost of the last iteration, numerator over Den
  last,                 \* the (t, n, subproblem_cost) of the last iteration
  raised,               \* the exception that left the callback, "" if none
  callbacks,            \* MIPSOL callbacks started
  mp_model,             \* MP.model: "none" until MasterProblem.build(), then "built"
  metrics,              \* the result fields Branch_and_Cut.solve has assigned
  runs,                 \* Branch_and_Cut objects (with their Cuts) constructed so far
  report,               \* the dict get_metrics_from_fixed_solution returned, <<>> before
  saa_pc,               \* SampleAverageApproximation.run: "train" | "evaluate" | "saved" |
                        \* "raised"
  produced,             \* the allocations the training runs returned, in order
  best_solutions,       \* the list best_solutions
  current_solution,     \* the dict the name current_solution is bound to, <<>> before
  current_kept,         \* that dict is also the last element of best_solutions
  solutions_evaluation, \* the length of the list solutions_evaluation; each of its
                        \* elements is the dict current_solution is bound to
  saved                 \* the dict written to the file of the best solution, <<>> before

vars == <<inst, pc, where, cand, pair, upper_bound, best_solution, upper_bound_updated,
          optimality_cuts, LBF_cuts, subproblem_solved, lazy, injected, disposed,
          total_cost, last, raised, callbacks, mp_model, metrics, runs, report, saa_pc,
          produced, best_solutions, current_solution, current_kept, solutions_evaluation,
          saved>>

driver == <<mp_model, metrics, runs>>

sweep == <<saa_pc, produced, best_solutions, current_solution, current_kept,
           solutions_evaluation, saved>>

counters == <<upper_bound_updated, optimality_cuts, LBF_cuts, subproblem_solved>>

(* the state after Branch_and_Cut.__init__: MasterProblem.__init__ creates *)
(* no model, Cuts.__init__ sets the class attributes                       *)
Init ==
  /\ inst \in Instances
  /\ pc = "idle"
  /\ where = ""
  /\ cand = <<>>
  /\ pair = 1
  /\ upper_bound = sys_maxsize * Den(inst)
  /\ best_solution = <<>>
  /\ upper_bound_updated = 0
  /\ optimality_cuts = 0
  /\ LBF_cuts = 0
  /\ subproblem_solved = 0
  /\ lazy = {}
  /\ injected = {}
  /\ disposed = {}
  /\ total_cost = -1
  /\ last = <<>>
  /\ raised = ""
  /\ callbacks = 0
  /\ mp_model = "none"
  /\ metrics = {}
  /\ runs = 1
  /\ report = <<>>
  /\ saa_pc = "train"
  /\ produced = <<>>
  /\ best_solutions = <<>>
  /\ current_solution = <<>>
  /\ current_kept = FALSE
  /\ solutions_evaluation = 0
  /\ saved = <<>>

(* MasterProblem.build(), called by the owner of the driver before solve *)
build ==
  /\ pc = "idle"
  /\ mp_model = "none"
  /\ mp_model' = "built"
  /\ UNCHANGED <<inst, pc, where, cand, pair, upper_bound, best_solution, counters, lazy,
                 injected, disposed, total_cost, last, raised, callbacks, metrics, runs,
                 report, sweep>>

(* Branch_and_Cut.solve up to the call of optimize: the parameters are set  *)
(* on self.MP.model, an attribute that exists only after build()           *)
solve_start ==
  /\ pc = "idle"
  /\ pc' = IF mp_model = "none" THEN "solve_raised" ELSE "searching"
  /\ raised' = IF mp_model = "none" THEN "AttributeError" ELSE raised
  /\ UNCHANGED <<inst, where, cand, pair, upper_bound, best_solution, counters, lazy,
                 injected, disposed, total_cost, last, callbacks, driver, report, sweep>>

(* the frames of the solver's callback *)
Frames == {"MIPSOL", "MIPNODE"}

(* a test that lets every frame through *)
IsMIPSOL_AnyFrame(w) == TRUE

(* where == GRB.Callback.MIPSOL *)
IsMIPSOL(w) == w = "MIPSOL"

(* Cuts.add_cuts with where # GRB.Callback.MIPSOL: only the two log lines *)
add_cuts_other ==
  /\ pc = "searching"
  /\ \E w \in Frames : ~IsMIPSOL(w) /\ where' = w
  /\ UNCHANGED <<inst, pc, cand, pair, upper_bound, best_solution, counters, lazy,
                 injected, disposed, total_cost, last, raised, callbacks, driver, report, sweep>>

(* Cuts.add_cuts with where = GRB.Callback.MIPSOL, up to the loop: the      *)
(* solver hands in an integer point of the current master                  *)
add_cuts_MIPSOL ==
  /\ pc = "searching"
  /\ callbacks < MaxCallbacks
  /\ \E c \in MasterFeasible(inst, lazy) : cand' = c
  /\ \E w \in Frames : IsMIPSOL(w) /\ where' = w
  /\ pc' = "callback"
  /\ pair' = 1
  /\ callbacks' = callbacks + 1
  /\ UNCHANGED <<inst, upper_bound, best_solution, counters, lazy, injected, disposed,
                 total_cost, last, raised, driver, report, sweep>>

(* SubProblem.solve_model(Y, False) on the SubProblem of (t, n): the       *)
(* exception it ends with ("" when it returns) and the cost it returns.    *)
(* reuse: a model that was disposed solves again (otherwise GurobiError).  *)
solve_model(instance, n, t, Y, is_disposed, reuse) ==
  IF is_disposed /\ ~reuse THEN [exc |-> "GurobiError", cost |-> 0]
  ELSE IF AddVariablesRaises(instance, n) THEN [exc |-> "AttributeError", cost |-> 0]
  ELSE [exc |-> "", cost |-> SubproblemCost(instance, n, t, Y)]

(* one iteration of the nested loops of add_cut_integer_solution. The      *)
(* calls whose outcome the library leaves open are a choice:               *)
(*   reuse     - see solve_model                                           *)
(*   getValue  - model._total_cost.getValue() inside the callback returns  *)
(*               the objective at the candidate (otherwise GurobiError)    *)
(*   broadcast - cbSetSolution(model._θ, scalar) sets every θ to the       *)
(*               scalar (otherwise the call raises)                        *)
(* rp is the statement that raises: 1 solve_model, 2 getValue,             *)
(* 3 cbSetSolution, 4 θ[(t, n)], 5 get_activation_function; 6 when the     *)
(* iteration completes.                                                    *)
loop_body ==
  /\ pc = "callback"
  /\ pair <= NumPairs(inst)
  /\ \E reuse \in BOOLEAN, getValue \in BOOLEAN, broadcast \in BOOLEAN :
     \E t \in {PairAt(inst, pair)[1]}, n \in {PairAt(inst, pair)[2]} :
     \E sp \in {solve_model(inst, n, t, cand.Y, <<t, n>> \in disposed, reuse)} :
     \E total \in {total_cost_value(inst, cand.Y, cand.theta) + Den(inst) * sp.cost} :
       LET Y == cand.Y
           theta == cand.theta
           key == <<"tup", t, n>>
           subproblem_cost == sp.cost
           improves == ImprovesUpperBound(total, upper_bound)
           rp == IF sp.exc # "" THEN 1
                 ELSE IF ~getValue THEN 2
                 ELSE IF improves /\ ~broadcast THEN 3
                 ELSE IF key \notin DOMAIN theta THEN 4
                 ELSE IF CutTriggered(theta[key], subproblem_cost)
                         /\ ActivationRaises(inst, Y, n, t) # "" THEN 5
                 ELSE 6
           exc == CASE rp = 1 -> sp.exc
                    [] rp = 2 -> "GurobiError"
                    [] rp = 3 -> "GurobiError"
                    [] rp = 4 -> "KeyError"
                    [] rp = 5 -> ActivationRaises(inst, Y, n, t)
                    [] OTHER -> ""
           cut == rp = 6 /\ CutTriggered(theta[key], subproblem_cost)
       IN /\ raised' = exc
          /\ pc' = IF rp = 6 THEN "callback" ELSE "raised"
          /\ pair' = IF rp = 6 THEN pair + 1 ELSE pair
          /\ disposed' = IF rp > 1 THEN disposed \cup {<<t, n>>} ELSE disposed
          /\ subproblem_solved' = IF rp > 1 THEN subproblem_solved + 1 ELSE subproblem_solved
          /\ last' = IF rp > 1 THEN <<t, n, subproblem_cost>> ELSE last
          /\ total_cost' = IF rp > 2 THEN total ELSE total_cost
          /\ upper_bound' = IF rp > 2 /\ improves THEN total ELSE upper_bound
          /\ best_solution' = IF rp > 2 /\ improves THEN Y ELSE best_solution
          /\ upper_bound_updated' = IF rp > 2 /\ improves
                                    THEN upper_bound_updated + 1 ELSE upper_bound_updated
          /\ injected' = IF rp > 3 /\ improves
                         THEN {[Y |-> Y, theta |-> [k \in ThetaKeys(inst) |-> subproblem_cost]]}
                         ELSE injected
          /\ lazy' = IF cut
                     THEN lazy \cup {LazyConstraint(inst, Y, theta[key], subproblem_cost, n, t)}
                     ELSE lazy
          /\ optimality_cuts' = IF cut THEN optimality_cuts + 1 ELSE optimality_cuts
  /\ UNCHANGED <<inst, where, cand, LBF_cuts, callbacks, driver, report, sweep>>

(* the loops are over: add_cut_integer_solution returns, add_cuts logs the *)
(* two counters and returns to the solver                                  *)
callback_return ==
  /\ pc = "callback"
  /\ pair > NumPairs(inst)
  /\ pc' = "searching"
  /\ UNCHANGED <<inst, where, cand, pair, upper_bound, best_solution, counters, lazy,
                 injected, disposed, total_cost, last, raised, callbacks, driver, report, sweep>>

(* an exception leaves the callback: the solver ends optimize() with it,   *)
(* or reports it and goes on with the search                               *)
callback_raise ==
  /\ pc = "raised"
  /\ \E goes_on \in BOOLEAN : pc' = IF goes_on THEN "searching" ELSE "aborted"
  /\ UNCHANGED <<inst, where, cand, pair, upper_bound, best_solution, counters, lazy,
                 injected, disposed, total_cost, last, raised, callbacks, driver, report, sweep>>

(* MP.model.optimize(Cuts.add_cuts) returns *)
optimize_end ==
  /\ pc = "searching"
  /\ pc' = "terminated"
  /\ UNCHANGED <<inst, where, cand, pair, upper_bound, best_solution, counters, lazy,
                 injected, disposed, total_cost, last, raised, callbacks, driver, report, sweep>>

(* Branch_and_Cut.solve after optimize returned: run_time, optimality_gap  *)
(* and objective_value are assigned in this order, then                    *)
(* self.MP.get_initial_upper_bound() is called, a method MasterProblem     *)
(* does not have; without an incumbent _total_cost.getValue() raises       *)
(* before. best_bound_value is not assigned and MP.model.dispose() is not  *)
(* reached.                                                                *)
save_metrics ==
  /\ pc = "terminated"
  /\ \E incumbent \in IF callbacks = 0 THEN {FALSE} ELSE BOOLEAN :
       /\ metrics' = IF incumbent THEN {"run_time", "optimality_gap", "objective_value"}
                                  ELSE {"run_time", "optimality_gap"}
       /\ raised' = IF incumbent THEN "AttributeError" ELSE "GurobiError"
  /\ pc' = "solve_raised"
  /\ UNCHANGED <<inst, where, cand, pair, upper_bound, best_solution, counters, lazy,
                 injected, disposed, total_cost, last, callbacks, mp_model, runs,
                 report, sweep>>

Next ==
  \/ build
  \/ solve_start
  \/ save_metrics
  \/ add_cuts_other
  \/ add_cuts_MIPSOL
  \/ loop_body
  \/ callback_return
  \/ callback_raise
  \/ optimize_end

Spec == Init /\ [][Next]_vars

(* ------------------------------ properties ----------------------------- *)
(* the probe-mode cost of (n, t) under Y: the optimum of the subproblem    *)
TrueCost(instance, n, t, Y) == SubproblemCost(instance, n, t, Y)

(* the patterns the master can propose *)
FeasiblePatterns(instance) == {Y \in Patterns(instance) : AtMostOneTier(instance, Y)}

(* the open-satellite sets of Y1 and Y2 differ in exactly d satellites, and *)
(* the satellites open in both keep their tier                             *)
SatelliteSteps(instance, Y1, Y2) ==
  Cardinality((Installed(instance, Y1) \ Installed(instance, Y2))
                \cup (Installed(instance, Y2) \ Installed(instance, Y1)))
SameCommonTiers(instance, Y1, Y2) ==
  \A s \in Installed(instance, Y1) \cap Installed(instance, Y2) :
    OpenTiers(instance, Y1, s) = OpenTiers(instance, Y2, s)

C2_UpperBoundNeverIncreases == [][upper_bound' <= upper_bound]_vars

(* two callbacks of one iteration each have both lowered the bound *)
C2_LoweredInTwoCallbacks ==
  NumPairs(inst) = 1 /\ callbacks = 2 /\ upper_bound_updated = 2
    /\ upper_bound < sys_maxsize * Den(inst)

C4_CutTightAtAnchor ==
  /\ \A cut \in lazy : CutRHS(cut.expr, cut.anchor) = cut.cost
  /\ pc = "callback" =>
       \A tn \in SPKeys(inst) :
         ActivationRaises(inst, cand.Y, tn[2], tn[1]) = "" =>
           CutRHS(get_activation_function(inst, cand.Y,
                    TrueCost(inst, tn[2], tn[1], cand.Y), tn[2], tn[1]), cand.Y)
             = TrueCost(inst, tn[2], tn[1], cand.Y)

(* a cut anchored at a pattern with two open satellites has been added *)
C4_CutWithTwoOpenSatellites ==
  \E cut \in lazy : Cardinality(cut.expr.open) = 2 /\ cut.cost > cut.expr.L

C7_LowerBoundsBelowProbeCost ==
  /\ (pc \in {"callback", "raised"} /\ last # <<>>) =>
       \A key \in ThetaKeys(inst) :
         ScenarioOf(key) = last[2] => compute_lower_bound(inst)[key] <= last[3]
  /\ pc = "callback" =>
       \A tn \in SPKeys(inst) :
         ActivationRaises(inst, cand.Y, tn[2], tn[1]) = "" =>
           CutL(inst, cand.Y, tn[2], tn[1]) <= TrueCost(inst, tn[2], tn[1], cand.Y)

C9_ThetaKeyedByScenarioAndPeriod ==
  callbacks > 0 =>
    /\ ThetaKeys(inst) = {<<"tup", tn[1], tn[2]>> : tn \in SPKeys(inst)}
    /\ raised # "KeyError"

(* C10: every pattern handed to the callback, and every pattern stored as  *)
(* best_solution, selects at most one capacity tier per satellite.         *)
C10_AtMostOneTierPerSatellite ==
  /\ callbacks > 0 => AtMostOneTier(inst, cand.Y)
  /\ upper_bound_updated > 0 => AtMostOneTier(inst, best_solution)

(* a pattern with two open satellites is stored as the best solution *)
C10_BestSolutionOpensTwoSatellites ==
  upper_bound_updated > 0 /\ Cardinality(Installed(inst, best_solution)) = 2

C20_OtherFramesChangeNothing ==
  [][(pc \in {"searching", "callback"} /\ ~(where' = "MIPSOL")) =>
       UNCHANGED <<upper_bound, best_solution, counters, lazy, injected, disposed>>]_vars

(* a callback of another frame arrives after a candidate has been processed *)
C20_OtherFrameAfterCandidate ==
  where = "MIPNODE" /\ pc = "searching" /\ upper_bound_updated > 0 /\ subproblem_solved > 0

(* --------------------------- a second run ------------------------------ *)
(* Branch_and_Cut(instance) constructed again once the first solve has     *)
(* ended, as SampleAverageApproximation.run does for every training        *)
(* instance: Cuts.__init__ assigns every attribute to the class Cuts, so   *)
(* the new subproblems, bound, incumbent and counters replace those the    *)
(* first driver reads through self.Cuts.                                   *)
second_run_init ==
  /\ pc \in {"solve_raised", "aborted"}
  /\ runs < MaxRuns
  /\ runs' = runs + 1
  /\ upper_bound' = sys_maxsize * Den(inst)
  /\ best_solution' = <<>>
  /\ upper_bound_updated' = 0
  /\ optimality_cuts' = 0
  /\ LBF_cuts' = 0
  /\ subproblem_solved' = 0
  /\ disposed' = {}
  /\ UNCHANGED <<inst, pc, where, cand, pair, lazy, injected, total_cost, last, raised,
                 callbacks, mp_model, metrics,
                 report, sweep>>

NextRuns == Next \/ second_run_init

SpecRuns == Init /\ [][NextRuns]_vars

C13_ProbeCostDependsOnlyOnY ==
  [][(/\ pc = "callback"
      /\ pair <= NumPairs(inst)
      /\ PairAt(inst, pair) \in disposed
      /\ ~AddVariablesRaises(inst, PairAt(inst, pair)[2]))
       => /\ subproblem_solved' = subproblem_solved + 1
          /\ last' = <<PairAt(inst, pair)[1], PairAt(inst, pair)[2],
                       TrueCost(inst, PairAt(inst, pair)[2], PairAt(inst, pair)[1], cand.Y)>>]_vars

Load(instance, n, t, sol, s) ==
  SumOver(instance.pixels[n],
          [k \in instance.pixels[n] |-> sol.Z[<<s, k>>] * FleetSize(instance, n, s, k, t)])

(* the solutions the solver can return: the feasible ones of least cost    *)
OptimalSolutions(instance, n, t, Y) ==
  UNION {{sol \in FeasibleSolutions(instance, n, t, Y) :
            objective(instance, n, t, Y, sol) = best} :
         best \in {SubproblemCost(instance, n, t, Y)}}

C16_OperatingTiersUpToInstalled ==
  (pc = "callback" /\ inst.type_of_flexibility # 1) =>
    \A s \in Installed(inst, cand.Y) :
      {k[2] : k \in {e \in XKeys(inst, cand.Y) : e[1] = s}}
        = {q \in Tiers(inst) :
             \E qi \in OpenTiers(inst, cand.Y, s) : capacity(inst)[q] <= capacity(inst)[qi]}

(* C17: for every installation pattern Y the subproblem creates no         *)
(* assignment variable for a satellite without an open tier, and           *)
(* solve_model on a SubProblem not used before completes.                  *)
C17_SolveCompletesWithoutClosedSatellites ==
  (pc = "callback" /\ pair <= NumPairs(inst)) =>
    /\ \A e \in ZKeys(inst, PairAt(inst, pair)[2], cand.Y) : e[1] \in Installed(inst, cand.Y)
    /\ solve_model(inst, PairAt(inst, pair)[2], PairAt(inst, pair)[1], cand.Y, FALSE, TRUE).exc = ""

BruteForceCost(instance, Ns, Y) ==
  Cardinality(Ns) * cost_installation_satellites(instance, Y)
    + SumOver(Periods(instance) \X Ns,
              [e \in Periods(instance) \X Ns |-> TrueCost(instance, e[2], e[1], Y)])

(* the patterns brute-force enumeration finds best for the scenarios Ns    *)
BruteForceBest(instance, Ns) ==
  UNION {{Y \in FeasiblePatterns(instance) : BruteForceCost(instance, Ns, Y) = best} :
         best \in {MinOf({BruteForceCost(instance, Ns, Y) : Y \in FeasiblePatterns(instance)})}}

(* two scenarios, no pattern is best for both taken alone *)
ConflictingScenarios(instance) ==
  /\ instance.nscen = 2
  /\ BruteForceBest(instance, {1}) \cap BruteForceBest(instance, {2}) = {}

SingleSatelliteSingleZone(instance) ==
  /\ Cardinality(instance.satellites) = 1
  /\ Cardinality(Tiers(instance)) = 1
  /\ instance.periods = 1
  /\ instance.nscen = 1
  /\ Cardinality(instance.pixels[1]) = 1

(* serving the zone from the satellite costs less than from the depot and  *)
(* the zone fits the tier                                                  *)
SatelliteCheaperAndFits(instance) ==
  \A s \in instance.satellites : \A q \in Tiers(instance) : \A k \in instance.pixels[1] :
    /\ CostSat(instance, 1, s, k, 0) < CostDc(instance, 1, k, 0)
    /\ FleetSize(instance, 1, s, k, 0) <= capacity(instance)[q]

(* opening, operating and serving from the satellite costs less than the   *)
(* depot                                                                   *)
OpeningPaysOff(instance) ==
  \A s \in instance.satellites : \A q \in Tiers(instance) : \A k \in instance.pixels[1] :
    cost_fixed(instance, s, q) + cost_operation(instance, s, q, 0)
      + CostSat(instance, 1, s, k, 0) < CostDc(instance, 1, k, 0)

(* the pattern opens the satellite and every optimal solution of its       *)
(* subproblem serves the zone from it                                      *)
OpensAndServesFromSatellite(instance, Y) ==
  /\ Installed(instance, Y) = instance.satellites
  /\ \A sol \in OptimalSolutions(instance, 1, 0, Y) :
       \A k \in instance.pixels[1] : \E s \in instance.satellites : sol.Z[<<s, k>>] = 1

Grid(instance) == instance.fleet

RelaxedSolutions(instance, n, t, Y) ==
  {sol \in [X : [XKeys(instance, Y) -> {0, 1}],
            Z : [ZKeys(instance, n, Y) -> 0..Grid(instance)],
            W : [WKeys(instance, n) -> 0..Grid(instance)]] :
     /\ R_Operating(instance, Y, sol)
     /\ \A k \in instance.pixels[n] :
          SumOver(Installed(instance, Y), [s \in Installed(instance, Y) |-> sol.Z[<<s, k>>]])
            + sol.W[k] = Grid(instance)
     /\ \A k \in instance.pixels[n] : \A s \in Installed(instance, Y) :
          sol.Z[<<s, k>>]
            - Grid(instance) * SumOver(TierPairs(instance, Y, s),
                [pr \in TierPairs(instance, Y, s) |-> sol.X[<<s, pr[2]>>]]) <= 0
     /\ \A s \in Installed(instance, Y) :
          SumOver(instance.pixels[n], [k \in instance.pixels[n] |->
                    sol.Z[<<s, k>>] * FleetSize(instance, n, s, k, t)])
            - Grid(instance) * SumOver(Tiers(instance),
                [q \in Tiers(instance) |-> Y[<<s, q>>] * capacity(instance)[q]]) <= 0}

RelaxedObjective(instance, n, t, Y, sol) ==
  cost_served_from_dc(instance, n, t, sol) + cost_served_from_satellite(instance, n, t, Y, sol)
    + Grid(instance) * cost_operating_satellites(instance, t, Y, sol)

RelaxedOptimalSolutions(instance, n, t, Y) ==
  UNION {{sol \in RelaxedSolutions(instance, n, t, Y) :
            RelaxedObjective(instance, n, t, Y, sol) = best} :
         best \in {MinOf({RelaxedObjective(instance, n, t, Y, sol) :
                            sol \in RelaxedSolutions(instance, n, t, Y)})}}

(* the required fleet size of the zone exceeds the capacity of every tier  *)
ZoneExceedsEveryTier(instance) ==
  \A s \in instance.satellites : \A q \in Tiers(instance) : \A k \in instance.pixels[1] :
    FleetSize(instance, 1, s, k, 0) > capacity(instance)[q]

C25_ProbedSubProblemKeepsItsModel ==
  \A tn \in SPKeys(inst) : tn \notin disposed

FinalOutcomes(instance, n, t, Y) ==
  IF AddVariablesRaises(instance, n)
  THEN {[exc |-> "AttributeError", sp_total_cost |-> 0, sp_cost_served_from_dc |-> 0,
         sp_cost_served_from_satellite |-> 0, sp_cost_operating_satellites |-> 0]}
  ELSE {[exc |-> "",
         sp_total_cost |-> objective(instance, n, t, Y, sol),
         sp_cost_served_from_dc |-> cost_served_from_dc(instance, n, t, sol),
         sp_cost_served_from_satellite |-> cost_served_from_satellite(instance, n, t, Y, sol),
         sp_cost_operating_satellites |-> cost_operating_satellites(instance, t, Y, sol)] :
          sol \in OptimalSolutions(instance, n, t, Y)}

(* C28: for every pattern Y and every (scenario, period), final mode       *)
(* returns the total that probe mode returns, and the total is the sum of  *)
(* the three parts of its breakdown.                                       *)
C28_FinalModeAgreesWithProbeMode ==
  pc = "callback" =>
    \A tn \in SPKeys(inst) : \A out \in FinalOutcomes(inst, tn[2], tn[1], cand.Y) :
      /\ out.exc = ""
      /\ solve_model(inst, tn[2], tn[1], cand.Y, FALSE, TRUE).exc = ""
      /\ out.sp_total_cost = solve_model(inst, tn[2], tn[1], cand.Y, FALSE, TRUE).cost
      /\ out.sp_total_cost = out.sp_cost_served_from_dc + out.sp_cost_served_from_satellite
                               + out.sp_cost_operating_satellites

(* ------------------------- the evaluation pass ------------------------- *)
(* the exception the final-mode solves of get_metrics_from_fixed_solution  *)
(* end with, "" when all return: with the empty best_solution the X        *)
(* comprehension reads fixed_y[(s, q)], a KeyError                         *)
FixedSolutionRaises(instance, Y) ==
  IF instance.satellites # {} /\ Y = <<>> THEN "KeyError"
  ELSE IF \E n \in ScenarioIds(instance) : AddVariablesRaises(instance, n) THEN "AttributeError"
  ELSE ""

(* Branch_and_Cut.get_metrics_from_fixed_solution, called by the owner of  *)
(* the driver once solve has assigned its metrics. scenarios_to_evalute    *)
(* is a Dict: the loop then iterates over its keys and SubProblem reads    *)
(* scenario["pixels"] of a key, a TypeError (as_dict); otherwise the loop  *)
(* solves every (scenario, period) in final mode and metrics.update        *)
(* overwrites sp_total_cost each time, so the dict returned holds the cost *)
(* of the last pair.                                                       *)
get_metrics_from_fixed_solution ==
  /\ pc = "solve_raised"
  /\ metrics # {}
  /\ report = <<>>
  /\ \E as_dict \in BOOLEAN :
     \E exc \in {IF as_dict THEN "TypeError" ELSE FixedSolutionRaises(inst, best_solution)} :
     \E n \in {id_scenarios(inst)[inst.nscen]}, t \in {inst.periods - 1} :
       IF exc # ""
       THEN /\ raised' = exc
            /\ report' = [exc |-> exc, satellites_used |-> best_solution, sp_total_cost |-> 0]
       ELSE /\ raised' = ""
            /\ \E out \in FinalOutcomes(inst, n, t, best_solution) :
                 report' = [exc |-> "", satellites_used |-> best_solution,
                            sp_total_cost |-> out.sp_total_cost]
  /\ UNCHANGED <<inst, pc, where, cand, pair, upper_bound, best_solution, counters, lazy,
                 injected, disposed, total_cost, last, callbacks, driver, sweep>>

NextEvaluation == Next \/ get_metrics_from_fixed_solution

SpecEvaluation == Init /\ [][NextEvaluation]_vars

get_best_solution_allocation(instance, Y) ==
  [s \in Installed(instance, Y) |->
     capacity(instance)[CHOOSE q \in Tiers(instance) : Y[<<s, q>>] = 1]]

(* the pattern an allocation stands for *)
PatternOf(instance, allocation) ==
  [k \in YKeys(instance) |->
     IF k[1] \in DOMAIN allocation /\ capacity(instance)[k[2]] = allocation[k[1]] THEN 1 ELSE 0]

(* Branch_and_Cut.solve_evaluation(solution): the installation cost plus   *)
(* the cost of every (scenario, period) subproblem under the pattern       *)
solve_evaluation(instance, allocation) ==
  cost_installation_satellites(instance, PatternOf(instance, allocation))
    + SumOver(SPKeys(instance),
              [tn \in SPKeys(instance) |->
                 TrueCost(instance, tn[2], tn[1], PatternOf(instance, allocation))])

(* the test of the training loop: some key of current_solution is a key of *)
(* some dict of best_solutions                                             *)
AnyKeyInBestSolutions(list, cs) ==
  \E i \in 1..Len(list) : \E key \in DOMAIN cs : key \in DOMAIN list[i]

(* one iteration of the training loop: a Branch_and_Cut run returns its    *)
(* allocation, which is appended unless the test above holds               *)
train ==
  /\ saa_pc = "train"
  /\ Len(produced) < MaxTrain
  /\ \E Y \in FeasiblePatterns(inst) :
     \E cs \in {get_best_solution_allocation(inst, Y)} :
     \E dup \in {AnyKeyInBestSolutions(best_solutions, cs)} :
       /\ produced' = Append(produced, cs)
       /\ current_solution' = [allocation |-> cs, objective_value |-> -1,
                               id_solution |-> -1, solution |-> 0]
       /\ best_solutions' = IF dup THEN best_solutions ELSE Append(best_solutions, cs)
       /\ current_kept' = ~dup
  /\ UNCHANGED <<inst, pc, where, cand, pair, upper_bound, best_solution, counters, lazy,
                 injected, disposed, total_cost, last, raised, callbacks, driver, report,
                 saa_pc, solutions_evaluation, saved>>

(* the Branch_and_Cut run of an iteration raises and run ends with it *)
train_raises ==
  /\ saa_pc = "train"
  /\ Len(produced) < MaxTrain
  /\ saa_pc' = "raised"
  /\ UNCHANGED <<inst, pc, where, cand, pair, upper_bound, best_solution, counters, lazy,
                 injected, disposed, total_cost, last, raised, callbacks, driver, report,
                 produced, best_solutions, current_solution, current_kept,
                 solutions_evaluation, saved>>

(* instances_train is exhausted *)
train_end ==
  /\ saa_pc = "train"
  /\ produced # <<>>
  /\ saa_pc' = "evaluate"
  /\ UNCHANGED <<inst, pc, where, cand, pair, upper_bound, best_solution, counters, lazy,
                 injected, disposed, total_cost, last, raised, callbacks, driver, report,
                 produced, best_solutions, current_solution, current_kept,
                 solutions_evaluation, saved>>

(* one iteration of the evaluation loop: the four fields are stored in the *)
(* dict current_solution is still bound to, the last one of the training   *)
(* loop, and that dict is appended to solutions_evaluation; "solution" is  *)
(* held as the position of the candidate in best_solutions                 *)
evaluate ==
  /\ saa_pc = "evaluate"
  /\ solutions_evaluation < Len(best_solutions)
  /\ \E i \in {solutions_evaluation} :
       current_solution' =
         [current_solution EXCEPT !.objective_value = solve_evaluation(inst, best_solutions[i + 1]),
                                  !.id_solution = i,
                                  !.solution = i + 1]
  /\ solutions_evaluation' = solutions_evaluation + 1
  /\ UNCHANGED <<inst, pc, where, cand, pair, upper_bound, best_solution, counters, lazy,
                 injected, disposed, total_cost, last, raised, callbacks, driver, report,
                 saa_pc, produced, best_solutions, current_kept, saved>>

(* min(solutions_evaluation, key=objective_value) and json.dump: every     *)
(* element of the list is the one dict current_solution is bound to, so    *)
(* min returns it. When that dict is also the last candidate, its field    *)
(* "solution" refers to itself and json.dump raises ValueError.            *)
select_and_save ==
  /\ saa_pc = "evaluate"
  /\ solutions_evaluation = Len(best_solutions)
  /\ IF current_kept
     THEN saa_pc' = "raised" /\ saved' = saved
     ELSE saa_pc' = "saved" /\ saved' = current_solution
  /\ UNCHANGED <<inst, pc, where, cand, pair, upper_bound, best_solution, counters, lazy,
                 injected, disposed, total_cost, last, raised, callbacks, driver, report,
                 produced, best_solutions, current_solution, current_kept,
                 solutions_evaluation>>

(* the sweep on the instances whose subproblems solve *)
InitSAA == Init /\ \A n \in ScenarioIds(inst) : ~AddVariablesRaises(inst, n)

NextSAA == train \/ train_raises \/ train_end \/ evaluate \/ select_and_save

SpecSAA == InitSAA /\ [][NextSAA]_vars

====
